---- MODULE Spec2Model ----
(***************************************************************************)
(* Verification model of the physics-validator library                     *)
(* (tools/physics-validator/src/lib.rs) and of the identities its test     *)
(* suite checks.  The library is five pure functions over f64; the model   *)
(* evaluates them in IEEE-754 binary64 arithmetic (round to nearest, ties  *)
(* to even, signed zeros, infinities, NaN, gradual underflow), implemented *)
(* on arbitrary-size naturals because products of 53-bit significands do   *)
(* not fit 32-bit integers.                                                *)
(***************************************************************************)
EXTENDS Integers, Sequences, FiniteSets, TLC

\* The mass and the radius (or distance) a caller holds, and the call or the
\* test it made last with them.
VARIABLES arg_mass, arg_radius, last

vars == <<arg_mass, arg_radius, last>>

(***************************************************************************)
(* Arbitrary-size naturals: little-endian sequences of limbs, base 2^15,   *)
(* without high zero limbs (so equal numbers are equal sequences).         *)
(***************************************************************************)
Pow2(k) == 2 ^ k

LimbBits == 15

Base == Pow2(LimbBits)

Limb(a, i) == IF i <= Len(a) THEN a[i] ELSE 0

Rest(a) == IF a = <<>> THEN a ELSE Tail(a)

RECURSIVE BTrim(_)
BTrim(a) ==
    IF a = <<>> THEN a
    ELSE IF a[Len(a)] = 0 THEN BTrim(SubSeq(a, 1, Len(a) - 1))
    ELSE a

BFromInt(n) == BTrim(<<n % Base, (n \div Base) % Base, n \div (Base * Base)>>)

RECURSIVE BAddC(_, _, _)
BAddC(a, b, c) ==
    IF a = <<>> /\ b = <<>> THEN (IF c = 0 THEN <<>> ELSE <<c>>)
    ELSE LET s == Limb(a, 1) + Limb(b, 1) + c
         IN  <<s % Base>> \o BAddC(Rest(a), Rest(b), s \div Base)

BAdd(a, b) == BAddC(a, b, 0)

RECURSIVE BSubB(_, _, _)
BSubB(a, b, br) ==
    IF a = <<>> THEN <<>>
    ELSE LET d == a[1] - Limb(b, 1) - br
         IN  <<IF d < 0 THEN d + Base ELSE d>>
                 \o BSubB(Tail(a), Rest(b), IF d < 0 THEN 1 ELSE 0)

\* a - b, for a >= b
BSub(a, b) == BTrim(BSubB(a, b, 0))

RECURSIVE BCmpI(_, _, _)
BCmpI(a, b, i) ==
    IF i = 0 THEN 0
    ELSE IF a[i] > b[i] THEN 1
    ELSE IF a[i] < b[i] THEN -1
    ELSE BCmpI(a, b, i - 1)

\* -1, 0, 1 as a < b, a = b, a > b
BCmp(a, b) ==
    IF Len(a) > Len(b) THEN 1
    ELSE IF Len(a) < Len(b) THEN -1
    ELSE BCmpI(a, b, Len(a))

RECURSIVE BMulS(_, _, _)
BMulS(a, d, c) ==
    IF a = <<>> THEN (IF c = 0 THEN <<>> ELSE <<c>>)
    ELSE LET p == a[1] * d + c
         IN  <<p % Base>> \o BMulS(Tail(a), d, p \div Base)

\* a * d, for a limb d
BMulSmall(a, d) == BTrim(BMulS(a, d, 0))

BShiftLimbs(a, q) == IF a = <<>> THEN a ELSE [i \in 1..q |-> 0] \o a

RECURSIVE BMul(_, _)
BMul(a, b) ==
    IF b = <<>> THEN <<>>
    ELSE BAdd(BMulSmall(a, b[1]), BShiftLimbs(BMul(a, Tail(b)), 1))

RECURSIVE BDivS(_, _, _, _)
BDivS(a, d, i, rem) ==
    IF i = 0 THEN <<>>
    ELSE LET cur == rem * Base + a[i]
         IN  Append(BDivS(a, d, i - 1, cur % d), cur \div d)

\* floor(a / d), for a limb d > 0
BDivSmall(a, d) == BTrim(BDivS(a, d, Len(a), 0))

\* a * 2^k
BShl(a, k) == BShiftLimbs(BMulSmall(a, Pow2(k % LimbBits)), k \div LimbBits)

\* floor(a / 2^k)
BShr(a, k) ==
    LET q == k \div LimbBits
    IN  IF q >= Len(a) THEN <<>>
        ELSE BDivSmall(SubSeq(a, q + 1, Len(a)), Pow2(k % LimbBits))

RECURSIVE SmallBitLen(_)
SmallBitLen(x) == IF x = 0 THEN 0 ELSE 1 + SmallBitLen(x \div 2)

\* number of significant bits of a (0 for 0)
BitLen(a) ==
    IF a = <<>> THEN 0 ELSE LimbBits * (Len(a) - 1) + SmallBitLen(a[Len(a)])

\* bit i of a (bit 0 is the lowest)
BBit(a, i) == (Limb(a, i \div LimbBits + 1) \div Pow2(i % LimbBits)) % 2

\* a mod 2^k # 0
BLowNonZero(a, k) == BShl(BShr(a, k), k) # a

BOne == <<1>>

Min(i, j) == IF i <= j THEN i ELSE j

\* the largest q <= qh with q * b <= r
RECURSIVE BQuotFix(_, _, _)
BQuotFix(r, b, qh) ==
    IF BCmp(BMulSmall(b, qh), r) <= 0 THEN qh ELSE BQuotFix(r, b, qh - 1)

\* floor(r / b) for r < b * Base and the top limb of b at least Base / 2:
\* the estimate from the top limbs is at most 2 too large
BQuotLimb(r, b) ==
    BQuotFix(r, b, Min(Base - 1,
                       (Limb(r, Len(b) + 1) * Base + Limb(r, Len(b))) \div b[Len(b)]))

\* one step of long division: the remainder so far takes the next limb d of
\* the dividend, and the quotient its next limb
BDivTake(cur, b, q, quot) == [q |-> <<q>> \o quot, r |-> BSub(cur, BMulSmall(b, q))]

BDivCur(cur, b, quot) == BDivTake(cur, b, BQuotLimb(cur, b), quot)

BDivStep(d, b, acc) == BDivCur(BTrim(<<d>> \o acc.r), b, acc.q)

\* long division of the limbs i..1 of a by b > 0, from the quotient and the
\* remainder acc of the limbs above them (the remainder stays below b)
RECURSIVE BDivLimbs(_, _, _, _)
BDivLimbs(a, b, i, acc) ==
    IF i = 0 \/ BCmp(acc.r, b) >= 0 THEN acc
    ELSE BDivLimbs(a, b, i - 1, BDivStep(a[i], b, acc))

BDivNorm(qr, sh) == [q |-> BTrim(qr.q), r |-> BShr(qr.r, sh)]

\* both operands shifted so that the top limb of the divisor is at least Base / 2
BDivShifted(a, b, sh) ==
    BDivNorm(BDivLimbs(BShl(a, sh), BShl(b, sh), Len(BShl(a, sh)),
                       [q |-> <<>>, r |-> <<>>]), sh)

\* a divided by b > 0: the quotient q and the remainder r
BDivMod(a, b) == BDivShifted(a, b, LimbBits - SmallBitLen(b[Len(b)]))

\* floor(sqrt(t)) for a machine integer t < 2^30, searched in lo..hi
RECURSIVE ISqrt(_, _, _)
ISqrt(t, lo, hi) ==
    IF lo = hi THEN lo
    ELSE IF ((lo + hi + 1) \div 2) * ((lo + hi + 1) \div 2) <= t
         THEN ISqrt(t, (lo + hi + 1) \div 2, hi)
         ELSE ISqrt(t, lo, (lo + hi + 1) \div 2 - 1)

BToInt(a) == Limb(a, 1) + Limb(a, 2) * Base

\* Newton's iteration from x >= floor(sqrt(a)) down to floor(sqrt(a))
RECURSIVE BNewton(_, _)
BNewtonStep(a, xk, y) == IF BCmp(y, xk) < 0 THEN BNewton(a, y) ELSE xk
BNewton(a, xk) == BNewtonStep(a, xk, BShr(BAdd(xk, BDivMod(a, xk).q), 1))

\* the start of the iteration: the root of the top 30 bits of a, rounded up
BSqrtFrom(a, k) ==
    BNewton(a, BShl(BFromInt(ISqrt(BToInt(BShr(a, k)), 0, Base - 1) + 1), k \div 2))

BSqrtShift(len) == IF len <= 30 THEN 0 ELSE (len - 30) + ((len - 30) % 2)

\* floor(sqrt(a))
BSqrt(a) == IF a = <<>> THEN a ELSE BSqrtFrom(a, BSqrtShift(BitLen(a)))

(***************************************************************************)
(* f64: IEEE-754 binary64.  A finite value is (-1)^s * m * 2^e with the    *)
(* significand m a natural below 2^53; normal values have m >= 2^52,       *)
(* subnormal values and zero have e = EMin.  Results are rounded to        *)
(* nearest, ties to even.  NaN payloads and the sign of NaN are dropped.   *)
(***************************************************************************)
Precision == 53

EMin == -1074

EMax == 971

NaN == [k |-> "nan", s |-> 0, m |-> <<>>, e |-> 0]

Inf(s) == [k |-> "inf", s |-> s, m |-> <<>>, e |-> 0]

Zero(s) == [k |-> "fin", s |-> s, m |-> <<>>, e |-> EMin]

IsNaN(x) == x.k = "nan"

IsInf(x) == x.k = "inf"

is_finite(x) == x.k = "fin"

IsZero(x) == x.k = "fin" /\ x.m = <<>>

\* neither zero nor subnormal, and finite
is_normal(x) == x.k = "fin" /\ BitLen(x.m) = Precision

XorSign(a, b) == (a + b) % 2

\* A significand rounded up to 2^53 moves to the next exponent; an exponent
\* above EMax overflows to infinity.
Pack(s, m, e) ==
    LET over == BitLen(m) > Precision
        m2 == IF over THEN BShr(m, 1) ELSE m
        e2 == IF over THEN e + 1 ELSE e
    IN  IF e2 > EMax THEN Inf(s) ELSE [k |-> "fin", s |-> s, m |-> m2, e |-> e2]

\* The f64 nearest to (-1)^s * (N + f) * 2^E, where 0 < f < 1 if sticky
\* and f = 0 if not.
Round(s, N, E, sticky) ==
    IF N = <<>> THEN Zero(s)
    ELSE LET e0 == E + BitLen(N) - Precision
             e == IF e0 < EMin THEN EMin ELSE e0
             sh == e - E
         IN  IF sh <= 0 THEN Pack(s, BShl(N, 0 - sh), e)
             ELSE LET q == BShr(N, sh)
                      half == BBit(N, sh - 1) = 1
                      rest == sticky \/ BLowNonZero(N, sh - 1)
                      odd == BBit(q, 0) = 1
                  IN  Pack(s, IF half /\ (rest \/ odd) THEN BAdd(q, BOne) ELSE q, e)

FNeg(x) == IF IsNaN(x) THEN x ELSE [x EXCEPT !.s = 1 - x.s]

\* f64::abs
FAbs(x) == IF IsNaN(x) THEN x ELSE [x EXCEPT !.s = 0]

\* x * y
FMul(x, y) ==
    LET s == XorSign(x.s, y.s)
    IN  IF IsNaN(x) \/ IsNaN(y) THEN NaN
        ELSE IF IsInf(x) \/ IsInf(y)
             THEN (IF IsZero(x) \/ IsZero(y) THEN NaN ELSE Inf(s))
        ELSE Round(s, BMul(x.m, y.m), x.e + y.e, FALSE)

\* the rounded quotient, from the quotient and remainder of the significands
RoundDiv(s, qr, E) == Round(s, qr.q, E, qr.r # <<>>)

\* x / y
FDiv(x, y) ==
    LET s == XorSign(x.s, y.s)
    IN  IF IsNaN(x) \/ IsNaN(y) THEN NaN
        ELSE IF IsInf(x) THEN (IF IsInf(y) THEN NaN ELSE Inf(s))
        ELSE IF IsInf(y) THEN Zero(s)
        ELSE IF IsZero(y) THEN (IF IsZero(x) THEN NaN ELSE Inf(s))
        ELSE IF IsZero(x) THEN Zero(s)
        ELSE LET n == 56 + BitLen(y.m) - BitLen(x.m)
             IN  RoundDiv(s, BDivMod(BShl(x.m, n), y.m), x.e - y.e - n)

\* the rounded root, from the radicand N and the floor of its square root
RoundSqrt(N, root, E) == Round(0, root, E, BMul(root, root) # N)

\* f64::sqrt
FSqrt(x) ==
    IF IsNaN(x) THEN NaN
    ELSE IF IsZero(x) THEN x
    ELSE IF x.s = 1 THEN NaN
    ELSE IF IsInf(x) THEN x
    ELSE LET t0 == 110 - BitLen(x.m)
             t == IF (x.e - t0) % 2 = 0 THEN t0 ELSE t0 + 1
         IN  RoundSqrt(BShl(x.m, t), BSqrt(BShl(x.m, t)), (x.e - t) \div 2)

\* magnitudes further apart than this many bits: the smaller one only decides
\* the rounding direction
FarApart == 64

\* x + y
FAdd(x, y) ==
    IF IsNaN(x) \/ IsNaN(y) THEN NaN
    ELSE IF IsInf(x) THEN (IF IsInf(y) /\ x.s # y.s THEN NaN ELSE x)
    ELSE IF IsInf(y) THEN y
    ELSE IF IsZero(x) /\ IsZero(y) THEN Zero(IF x.s = y.s THEN x.s ELSE 0)
    ELSE LET hi == IF x.e >= y.e THEN x ELSE y
             lo == IF x.e >= y.e THEN y ELSE x
             d == hi.e - lo.e
         IN  IF lo.m = <<>> THEN hi
             ELSE IF d > FarApart
             THEN LET m8 == BShl(hi.m, 3)
                  IN  Round(hi.s, IF hi.s = lo.s THEN m8 ELSE BSub(m8, BOne),
                            hi.e - 3, TRUE)
             ELSE LET mh == BShl(hi.m, d)
                      c == BCmp(mh, lo.m)
                  IN  IF hi.s = lo.s THEN Round(hi.s, BAdd(mh, lo.m), lo.e, FALSE)
                      ELSE IF c = 0 THEN Zero(0)
                      ELSE IF c > 0 THEN Round(hi.s, BSub(mh, lo.m), lo.e, FALSE)
                      ELSE Round(lo.s, BSub(lo.m, mh), lo.e, FALSE)

\* x - y
FSub(x, y) == FAdd(x, FNeg(y))

\* x < y (false when either is NaN)
FLt(x, y) ==
    IF IsNaN(x) \/ IsNaN(y) THEN FALSE
    ELSE IF IsZero(x) /\ IsZero(y) THEN FALSE
    ELSE IF x.s # y.s THEN x.s = 1
    ELSE LET magLt(a, b) ==
                 IF IsInf(a) THEN FALSE
                 ELSE IF IsInf(b) THEN TRUE
                 ELSE a.e < b.e \/ (a.e = b.e /\ BCmp(a.m, b.m) < 0)
         IN  IF x.s = 0 THEN magLt(x, y) ELSE magLt(y, x)

(***************************************************************************)
(* Decimal literals of the source, converted as the compiler converts      *)
(* them: to the nearest f64.  Lit(<<c1, ..., cn>>, k) is the literal whose *)
(* digits are the chunks c1 ... cn (four decimal digits each after the     *)
(* first) times 10^k.                                                      *)
(***************************************************************************)
RECURSIVE BPow10(_)
BPow10(k) == IF k = 0 THEN BOne ELSE BMulSmall(BPow10(k - 1), 10)

RECURSIVE BDec(_)
BDec(cs) ==
    IF cs = <<>> THEN <<>>
    ELSE BAdd(BMulSmall(BDec(SubSeq(cs, 1, Len(cs) - 1)), 10000),
              BFromInt(cs[Len(cs)]))

\* the literal cs * 10^k (k >= 0), rounded once
Lit(cs, k) == Round(0, BMul(BDec(cs), BPow10(k)), 0, FALSE)

\* N / D for integers N, D > 0, rounded once
Quotient(N, D, n) == RoundDiv(0, BDivMod(BShl(N, n), D), 0 - n)

\* the literal cs / 10^k (k > 0), rounded once
LitDiv(cs, k) ==
    Quotient(BDec(cs), BPow10(k), (Precision + 3) + BitLen(BPow10(k)))

(***************************************************************************)
(* The library: src/lib.rs.                                                *)
(***************************************************************************)
G == LitDiv(<<66, 7430>>, 16)

EARTH_MASS == Lit(<<5972>>, 21)

EARTH_RADIUS == Lit(<<6371>>, 3)

\* std::f64::consts::PI
PI == LitDiv(<<3141, 5926, 5358, 9793>>, 15)

F(n) == Round(0, BFromInt(n), 0, FALSE)

\* f64::powi(3): x * (x * x), each product rounded
powi3(x) == FMul(x, FMul(x, x))

\* a variant that takes the formula of the escape velocity
orbital_velocity_doubled(mass, radius) ==
    FSqrt(FDiv(FMul(FMul(F(2), G), mass), radius))

\* a variant that answers zero for a radius of zero
orbital_velocity_guarded(mass, radius) ==
    IF IsZero(radius) THEN Zero(0) ELSE FSqrt(FDiv(FMul(G, mass), radius))

orbital_velocity(mass, radius) == FSqrt(FDiv(FMul(G, mass), radius))

\* a variant that squares the radius instead of cubing it
orbital_period_squared(mass, radius) ==
    FMul(FMul(F(2), PI), FSqrt(FDiv(FMul(radius, radius), FMul(G, mass))))

\* a variant that rejects a radius that is not positive
orbital_period_checked(mass, radius) ==
    IF FLt(Zero(0), radius)
    THEN FMul(FMul(F(2), PI), FSqrt(FDiv(powi3(radius), FMul(G, mass))))
    ELSE [k |-> "panic", s |-> 0]

orbital_period(mass, radius) ==
    FMul(FMul(F(2), PI), FSqrt(FDiv(powi3(radius), FMul(G, mass))))

\* a variant with the factor 2.0 outside the square root
escape_velocity_outside(mass, radius) ==
    FMul(F(2), FSqrt(FDiv(FMul(G, mass), radius)))

\* a variant without the factor 2.0
escape_velocity_unscaled(mass, radius) == FSqrt(FDiv(FMul(G, mass), radius))

escape_velocity(mass, radius) == FSqrt(FDiv(FMul(FMul(F(2), G), mass), radius))

\* a variant that divides by the distance, not by its square
gravitational_force_linear(mass1, mass2, distance) ==
    FDiv(FMul(FMul(G, mass1), mass2), distance)

gravitational_force(mass1, mass2, distance) ==
    FDiv(FMul(FMul(G, mass1), mass2), FMul(distance, distance))

\* a variant that divides by the distance, not by its square
gravitational_acceleration_linear(mass, distance) == FDiv(FMul(G, mass), distance)

\* a variant that keeps the sign of the distance
gravitational_acceleration_signed(mass, distance) ==
    FDiv(FMul(G, mass), FMul(distance, FAbs(distance)))

gravitational_acceleration(mass, distance) ==
    FDiv(FMul(G, mass), FMul(distance, distance))

(***************************************************************************)
(* The test suites' helpers: src/lib.rs (mod tests) and                    *)
(* tests/orbital_mechanics_tests.rs.                                       *)
(***************************************************************************)
TOLERANCE == LitDiv(<<1>>, 6)

\* the 1% bound of the comparisons against real-world values (error < 0.01)
REFERENCE_TOLERANCE == LitDiv(<<1>>, 2)

relative_error(actual, expected) == FAbs(FDiv(FSub(actual, expected), expected))

(***************************************************************************)
(* The inputs.  Masses and radii are the values of the test suites, the    *)
(* same scaled by powers of two up to 2^(ScaleBits * MaxScale) in both     *)
(* directions, the boundary values of f64, zero and negative values.       *)
(***************************************************************************)
MaxScale == 2

ScaleBits == 300

\* 2^n, for a normal exponent n
Pow2F(n) == [k |-> "fin", s |-> 0, m |-> BShl(BOne, Precision - 1), e |-> n - (Precision - 1)]

\* the smallest positive (subnormal) f64
MIN_SUBNORMAL == [k |-> "fin", s |-> 0, m |-> BOne, e |-> EMin]

Scaled(v, j) ==
    IF j >= 0 THEN FMul(v, Pow2F(ScaleBits * j)) ELSE FDiv(v, Pow2F(ScaleBits * (0 - j)))

Positive(v) == FLt(Zero(0), v)

Negative(v) == FLt(v, Zero(0))

Masses ==
    {v \in {Scaled(EARTH_MASS, j) : j \in (0 - MaxScale)..MaxScale} : is_finite(v)}
        \cup {F(1), MIN_SUBNORMAL, Zero(0), FNeg(EARTH_MASS)}

\* the second masses: test_gravitational_force (70 kg),
\* test_force_acceleration_relationship (100 kg), zero and a negative mass
TestMasses == {F(70), F(100), Zero(0), FNeg(F(70))}

\* the radii of the test suites
TestRadii ==
    {EARTH_RADIUS,
     Lit(<<6771>>, 3),       \* EARTH_RADIUS + 400_000.0
     Lit(<<6779>>, 3),       \* EARTH_RADIUS + 408_000.0
     Lit(<<4, 2157>>, 3),    \* EARTH_RADIUS + 35_786_000.0
     Lit(<<3844>>, 5),       \* 384_400_000.0
     Lit(<<1, 2742>>, 3),    \* EARTH_RADIUS * 2.0
     Lit(<<2, 5484>>, 3),    \* EARTH_RADIUS * 4.0
     F(1)}

Radii ==
    TestRadii
        \cup {v \in {Scaled(EARTH_RADIUS, j) : j \in (0 - MaxScale)..MaxScale} : is_finite(v)}
        \cup {Zero(0), Zero(1), FNeg(EARTH_RADIUS)}
        \cup {v \in {FNeg(Scaled(EARTH_RADIUS, MaxScale))} : is_finite(v)}

PositiveMasses == {v \in Masses : Positive(v)}

PositiveRadii == {v \in Radii : Positive(v)}

(***************************************************************************)
(* The results of the library functions on the inputs, each computed once: *)
(* Table(f) is the function f with all its values worked out.              *)
(***************************************************************************)
Table(f) == f @@ <<>>

OV == Table([a \in Masses \X Radii |-> orbital_velocity(a[1], a[2])])

OP == Table([a \in Masses \X Radii |-> orbital_period(a[1], a[2])])

EV == Table([a \in Masses \X Radii |-> escape_velocity(a[1], a[2])])

GF ==
    Table([a \in Masses \X TestMasses \X Radii |->
              gravitational_force(a[1], a[2], a[3])])

GA == Table([a \in Masses \X Radii |-> gravitational_acceleration(a[1], a[2])])

(***************************************************************************)
(* The identity tests, with their fixed inputs (EARTH_MASS, multiples of   *)
(* EARTH_RADIUS, 100 kg) replaced by parameters.  Each yields the `error`  *)
(* the test compares with TOLERANCE.                                       *)
(***************************************************************************)
\* lib.rs, mod tests
test_escape_velocity_is_sqrt2_times_orbital(mass, test_radius) ==
    relative_error(FDiv(escape_velocity(mass, test_radius),
                        orbital_velocity(mass, test_radius)),
                   FSqrt(F(2)))

\* lib.rs, mod tests
test_force_acceleration_relationship(mass, test_mass, distance) ==
    relative_error(FDiv(gravitational_force(mass, test_mass, distance), test_mass),
                   gravitational_acceleration(mass, distance))

\* t * t / (r * r * r) of test_kepler_third_law
kepler_ratio(t, r) == FDiv(FMul(t, t), FMul(FMul(r, r), r))

\* T^2 / r^3 with T = orbital_period(mass, r), computed once for each orbit
KR ==
    Table([a \in PositiveMasses \X PositiveRadii |->
              kepler_ratio(orbital_period(a[1], a[2]), a[2])])

\* tests/orbital_mechanics_tests.rs
test_kepler_third_law(mass, r1, r2) ==
    relative_error(KR[<<mass, r1>>], KR[<<mass, r2>>])

\* tests/orbital_mechanics_tests.rs: r2 = r1 * 2.0
test_inverse_square_law(mass, r1) ==
    relative_error(FDiv(gravitational_acceleration(mass, r1),
                        gravitational_acceleration(mass, FMul(r1, F(2)))),
                   F(4))

\* tests/orbital_mechanics_tests.rs
test_circular_orbit_energy_balance(mass, orbital_radius) ==
    relative_error(FMul(FMul(LitDiv(<<5>>, 1), orbital_velocity(mass, orbital_radius)),
                        orbital_velocity(mass, orbital_radius)),
                   FDiv(FDiv(FMul(G, mass), orbital_radius), F(2)))

T_sqrt2 ==
    Table([a \in PositiveMasses \X PositiveRadii |->
              test_escape_velocity_is_sqrt2_times_orbital(a[1], a[2])])

T_force ==
    Table([a \in PositiveMasses \X TestMasses \X PositiveRadii |->
              test_force_acceleration_relationship(a[1], a[2], a[3])])

T_kepler ==
    Table([a \in PositiveMasses \X PositiveRadii \X PositiveRadii |->
              test_kepler_third_law(a[1], a[2], a[3])])

T_inverse ==
    Table([a \in PositiveMasses \X PositiveRadii |->
              test_inverse_square_law(a[1], a[2])])

T_energy ==
    Table([a \in PositiveMasses \X PositiveRadii |->
              test_circular_orbit_energy_balance(a[1], a[2])])

(***************************************************************************)
(* A caller: it holds a mass and a radius and, in any order and any number *)
(* of times, calls a library function on them (Spec) or runs an identity   *)
(* test on them (SpecIdentities).  `last` is the call or test made last,   *)
(* with its result.                                                        *)
(***************************************************************************)
NoCall == [op |-> "none"]

Init ==
    /\ arg_mass \in Masses
    /\ arg_radius \in Radii
    /\ last = NoCall

CallOrbitalVelocity ==
    /\ last' = [op |-> "orbital_velocity", ret |-> OV[<<arg_mass, arg_radius>>]]
    /\ UNCHANGED <<arg_mass, arg_radius>>

CallOrbitalPeriod ==
    /\ last' = [op |-> "orbital_period", ret |-> OP[<<arg_mass, arg_radius>>]]
    /\ UNCHANGED <<arg_mass, arg_radius>>

CallEscapeVelocity ==
    /\ last' = [op |-> "escape_velocity", ret |-> EV[<<arg_mass, arg_radius>>]]
    /\ UNCHANGED <<arg_mass, arg_radius>>

CallGravitationalForce ==
    /\ \E mass2 \in TestMasses :
          last' = [op |-> "gravitational_force", mass2 |-> mass2,
                   ret |-> GF[<<arg_mass, mass2, arg_radius>>]]
    /\ UNCHANGED <<arg_mass, arg_radius>>

CallGravitationalAcceleration ==
    /\ last' = [op |-> "gravitational_acceleration", ret |-> GA[<<arg_mass, arg_radius>>]]
    /\ UNCHANGED <<arg_mass, arg_radius>>

Next ==
    \/ CallOrbitalVelocity
    \/ CallOrbitalPeriod
    \/ CallEscapeVelocity
    \/ CallGravitationalForce
    \/ CallGravitationalAcceleration

Spec == Init /\ [][Next]_vars

\* the identity tests run on valid inputs: a positive mass and positive radii
ValidInputs == Positive(arg_mass) /\ Positive(arg_radius)

RunSqrt2Test ==
    /\ ValidInputs
    /\ last' = [op |-> "test_escape_velocity_is_sqrt2_times_orbital",
                error |-> T_sqrt2[<<arg_mass, arg_radius>>]]
    /\ UNCHANGED <<arg_mass, arg_radius>>

RunForceAccelerationTest ==
    /\ ValidInputs
    /\ \E test_mass \in TestMasses :
          last' = [op |-> "test_force_acceleration_relationship", test_mass |-> test_mass,
                   error |-> T_force[<<arg_mass, test_mass, arg_radius>>]]
    /\ UNCHANGED <<arg_mass, arg_radius>>

RunKeplerTest ==
    /\ ValidInputs
    /\ \E r2 \in PositiveRadii :
          last' = [op |-> "test_kepler_third_law", r2 |-> r2,
                   error |-> T_kepler[<<arg_mass, arg_radius, r2>>]]
    /\ UNCHANGED <<arg_mass, arg_radius>>

RunInverseSquareTest ==
    /\ ValidInputs
    /\ last' = [op |-> "test_inverse_square_law",
                error |-> T_inverse[<<arg_mass, arg_radius>>]]
    /\ UNCHANGED <<arg_mass, arg_radius>>

RunEnergyBalanceTest ==
    /\ ValidInputs
    /\ last' = [op |-> "test_circular_orbit_energy_balance",
                error |-> T_energy[<<arg_mass, arg_radius>>]]
    /\ UNCHANGED <<arg_mass, arg_radius>>

NextIdentities ==
    \/ RunSqrt2Test
    \/ RunForceAccelerationTest
    \/ RunKeplerTest
    \/ RunInverseSquareTest
    \/ RunEnergyBalanceTest

SpecIdentities == Init /\ [][NextIdentities]_vars

(***************************************************************************)
(* Claims about the calls (Spec).                                          *)
(***************************************************************************)
Functions ==
    {"orbital_velocity", "orbital_period", "escape_velocity",
     "gravitational_force", "gravitational_acceleration"}

Called(f) == last.op = f

CalledAny == last.op \in Functions

\* v is a value of the type f64: a finite number with a mantissa below 2^53
\* and an exponent in range, an infinity or a NaN
IsF64(v) ==
    /\ v.k \in {"fin", "inf", "nan"}
    /\ v.s \in {0, 1}
    /\ v.k = "fin" => /\ v.e \in EMin..EMax
                      /\ BitLen(v.m) <= Precision
                      /\ v.m = BTrim(v.m)
                      /\ \A i \in 1..Len(v.m) : v.m[i] \in 0..(Base - 1)

\* C6, as the spec states it: with a positive mass and a radius or distance
\* of zero, every one of the five functions returns an infinity or a NaN.
C6_AllNonFiniteAtZero ==
    (Positive(arg_mass) /\ IsZero(arg_radius) /\ CalledAny) => ~is_finite(last.ret)

\* C6, amended: with a positive mass and a radius or distance of zero,
\* orbital_velocity, escape_velocity, gravitational_force and
\* gravitational_acceleration return an infinity or a NaN, while
\* orbital_period returns zero (NaN only if G * mass underflows to zero).
C6_ZeroRadius ==
    (Positive(arg_mass) /\ IsZero(arg_radius) /\ CalledAny) =>
        IF Called("orbital_period")
        THEN IF IsZero(FMul(G, arg_mass)) THEN IsNaN(last.ret) ELSE IsZero(last.ret)
        ELSE ~is_finite(last.ret)

\* orbital_period called on the Earth's mass and radius zero has returned zero
C6_Witness ==
    /\ arg_mass = EARTH_MASS
    /\ arg_radius = Zero(0)
    /\ Called("orbital_period")
    /\ last.ret = Zero(0)

\* the same call made with the distance negated
Mirror(f) ==
    IF f = "gravitational_force" THEN GF[<<arg_mass, last.mass2, FNeg(arg_radius)>>]
    ELSE GA[<<arg_mass, FNeg(arg_radius)>>]

\* the number a function takes the square root of
Radicand(f) ==
    IF f = "orbital_velocity" THEN FDiv(FMul(G, arg_mass), arg_radius)
    ELSE IF f = "escape_velocity" THEN FDiv(FMul(FMul(F(2), G), arg_mass), arg_radius)
    ELSE FDiv(powi3(arg_radius), FMul(G, arg_mass))

\* C7, as the spec states it: with a positive mass and a negative radius or
\* distance, every one of the five functions returns an infinity or a NaN.
C7_AllNonFiniteAtNegative ==
    (Positive(arg_mass) /\ Negative(arg_radius) /\ CalledAny) => ~is_finite(last.ret)

\* C7, amended: with a positive mass and a negative radius, orbital_velocity,
\* orbital_period and escape_velocity return NaN (or zero, when the quotient
\* under the square root is a zero); with a negative distance,
\* gravitational_force and gravitational_acceleration return what they
\* return for the positive distance of the same magnitude.
C7_NegativeRadius ==
    (Positive(arg_mass) /\ Negative(arg_radius) /\ CalledAny) =>
        IF last.op \in {"gravitational_force", "gravitational_acceleration"}
        THEN last.ret = Mirror(last.op)
        ELSE IF IsZero(Radicand(last.op)) THEN IsZero(last.ret) ELSE IsNaN(last.ret)

\* gravitational_acceleration called on the Earth's mass and the negated
\* radius of the Earth has returned a finite, positive acceleration
C7_Witness ==
    /\ arg_mass = EARTH_MASS
    /\ arg_radius = FNeg(EARTH_RADIUS)
    /\ Called("gravitational_acceleration")
    /\ is_normal(last.ret)
    /\ Positive(last.ret)

\* C8: called with any finite mass, radius or distance (zero and negative
\* ones included), each of the five functions returns a value of the type
\* f64 (finite, infinite or NaN), never anything else.
C8_Total == CalledAny => IsF64(last.ret)

\* orbital_velocity called on a negative mass and a radius of zero has
\* returned (a NaN or an infinity)
C8_Witness ==
    /\ Negative(arg_mass)
    /\ IsZero(arg_radius)
    /\ Called("orbital_velocity")
    /\ IsF64(last.ret)
    /\ ~is_finite(last.ret)

\* the reference values of the test suites:
\* the function, the radius or distance, the value expected
References ==
    {<<"orbital_velocity", Lit(<<6771>>, 3), F(7670)>>,
     <<"orbital_velocity", Lit(<<6779>>, 3), F(7660)>>,
     <<"orbital_period", Lit(<<4, 2157>>, 3), Lit(<<864>>, 2)>>,
     <<"orbital_period", Lit(<<6779>>, 3), LitDiv(<<5, 5608>>, 1)>>,
     <<"orbital_velocity", Lit(<<3844>>, 5), F(1022)>>,
     <<"orbital_period", Lit(<<3844>>, 5), Lit(<<236, 0640>>, 0)>>,
     <<"escape_velocity", EARTH_RADIUS, F(11186)>>,
     <<"gravitational_force", EARTH_RADIUS, F(686)>>,
     <<"gravitational_acceleration", EARTH_RADIUS, LitDiv(<<981>>, 2)>>}

\* the call made last is the call of reference ref
IsReference(ref) ==
    /\ arg_mass = EARTH_MASS
    /\ arg_radius = ref[2]
    /\ Called(ref[1])
    /\ Called("gravitational_force") => last.mass2 = F(70)

\* C10: each reference case of the test suites, on the mass of the Earth, is
\* reproduced with a relative error below 1%.
C10_References ==
    \A ref \in References :
        IsReference(ref) => FLt(relative_error(last.ret, ref[3]), REFERENCE_TOLERANCE)

\* the period of the Moon's orbit has been computed, within 1% of 2360640 s
C10_Witness ==
    /\ IsReference(<<"orbital_period", Lit(<<3844>>, 5), Lit(<<236, 0640>>, 0)>>)
    /\ FLt(relative_error(last.ret, Lit(<<236, 0640>>, 0)), REFERENCE_TOLERANCE)

(***************************************************************************)
(* Claims about the identities (SpecIdentities).  An identity holds where  *)
(* no intermediate result of the computation overflows or underflows: the  *)
(* ...InRange predicates say that these results are normal numbers.        *)
(***************************************************************************)
Ran(t) == last.op = t

WithinTolerance == FLt(last.error, TOLERANCE)

SqrtRatioInRange(mass, r) ==
    /\ is_normal(FMul(G, mass))
    /\ is_normal(FDiv(FMul(G, mass), r))
    /\ is_normal(FMul(FMul(F(2), G), mass))
    /\ is_normal(FDiv(FMul(FMul(F(2), G), mass), r))

ForceInRange(mass, test_mass, d) ==
    /\ is_normal(FMul(G, mass))
    /\ is_normal(FMul(FMul(G, mass), test_mass))
    /\ is_normal(FMul(d, d))
    /\ is_normal(GF[<<mass, test_mass, d>>])
    /\ is_normal(GA[<<mass, d>>])

KeplerInRange(mass, r) ==
    /\ is_normal(FMul(r, r))
    /\ is_normal(powi3(r))
    /\ is_normal(FMul(G, mass))
    /\ is_normal(FDiv(powi3(r), FMul(G, mass)))
    /\ is_normal(FMul(OP[<<mass, r>>], OP[<<mass, r>>]))
    /\ is_normal(KR[<<mass, r>>])

KeplerOK == Table([a \in PositiveMasses \X PositiveRadii |-> KeplerInRange(a[1], a[2])])

InverseSquareInRange(mass, r) ==
    /\ is_normal(FMul(G, mass))
    /\ is_normal(FMul(r, r))
    /\ is_normal(GA[<<mass, r>>])
    /\ is_normal(FMul(r, F(2)))
    /\ is_normal(FMul(FMul(r, F(2)), FMul(r, F(2))))
    /\ is_normal(gravitational_acceleration(mass, FMul(r, F(2))))

EnergyInRange(mass, r) ==
    /\ is_normal(FMul(G, mass))
    /\ is_normal(FDiv(FMul(G, mass), r))
    /\ is_normal(FDiv(FDiv(FMul(G, mass), r), F(2)))

\* C1, as the spec states it: for every mass M > 0 and radius r > 0,
\* escape_velocity(M, r) / orbital_velocity(M, r) is sqrt(2) within 1e-6.
C1_Sqrt2ForAll ==
    Ran("test_escape_velocity_is_sqrt2_times_orbital") => WithinTolerance

\* C1, amended: for every mass M > 0 and radius r > 0 for which G * M,
\* G * M / r, 2 * G * M and 2 * G * M / r are normal numbers,
\* escape_velocity(M, r) / orbital_velocity(M, r) is sqrt(2) within 1e-6.
C1_Sqrt2InRange ==
    (Ran("test_escape_velocity_is_sqrt2_times_orbital")
        /\ SqrtRatioInRange(arg_mass, arg_radius)) => WithinTolerance

\* the test of the source (the Earth's mass, twice its radius) has passed
C1_Witness ==
    /\ Ran("test_escape_velocity_is_sqrt2_times_orbital")
    /\ arg_mass = EARTH_MASS
    /\ arg_radius = Lit(<<1, 2742>>, 3)
    /\ SqrtRatioInRange(arg_mass, arg_radius)
    /\ WithinTolerance

\* C2, as the spec states it: for every mass M > 0, distance r > 0 and any
\* test mass m, gravitational_force(M, m, r) / m is
\* gravitational_acceleration(M, r) within 1e-6.
C2_ForceForAll ==
    Ran("test_force_acceleration_relationship") => WithinTolerance

\* C2, amended: the same for every M > 0, r > 0 and test mass m (which is
\* then not zero) for which G * M, G * M * m, r * r, the force and the
\* acceleration are normal numbers.
C2_ForceInRange ==
    (Ran("test_force_acceleration_relationship")
        /\ ForceInRange(arg_mass, last.test_mass, arg_radius)) => WithinTolerance

\* the identity has held for a negative test mass and the largest of the
\* masses, at the radius of the Earth
C2_Witness ==
    /\ Ran("test_force_acceleration_relationship")
    /\ arg_mass = Scaled(EARTH_MASS, MaxScale)
    /\ arg_radius = EARTH_RADIUS
    /\ last.test_mass = FNeg(F(70))
    /\ ForceInRange(arg_mass, last.test_mass, arg_radius)
    /\ WithinTolerance

\* C3, as the spec states it: for every mass M > 0 and radii r1 > 0, r2 > 0,
\* T1^2 / r1^3 is T2^2 / r2^3 within 1e-6, T = orbital_period(M, r).
C3_KeplerForAll == Ran("test_kepler_third_law") => WithinTolerance

\* C3, amended: the same for every M > 0 and every r1 > 0, r2 > 0 such that
\* for both radii r * r, r^3, G * M, r^3 / (G * M), T * T and T * T / r^3
\* are normal numbers.
C3_KeplerInRange ==
    (Ran("test_kepler_third_law")
        /\ KeplerOK[<<arg_mass, arg_radius>>]
        /\ KeplerOK[<<arg_mass, last.r2>>]) => WithinTolerance

\* the law has held between the radius of the Earth and the Moon's orbit
C3_Witness ==
    /\ Ran("test_kepler_third_law")
    /\ arg_mass = EARTH_MASS
    /\ arg_radius = EARTH_RADIUS
    /\ last.r2 = Lit(<<3844>>, 5)
    /\ KeplerOK[<<arg_mass, arg_radius>>]
    /\ KeplerOK[<<arg_mass, last.r2>>]
    /\ WithinTolerance

\* C4, as the spec states it: for every mass M > 0 and distance r > 0,
\* gravitational_acceleration(M, r) / gravitational_acceleration(M, 2r) is
\* 4 within 1e-6.
C4_InverseSquareForAll == Ran("test_inverse_square_law") => WithinTolerance

\* C4, amended: the same for every M > 0 and r > 0 for which G * M, r * r,
\* 2r, 2r * 2r and the two accelerations are normal numbers.
C4_InverseSquareInRange ==
    (Ran("test_inverse_square_law")
        /\ InverseSquareInRange(arg_mass, arg_radius)) => WithinTolerance

\* the law has held at the Moon's distance from one kilogram
C4_Witness ==
    /\ Ran("test_inverse_square_law")
    /\ arg_mass = F(1)
    /\ arg_radius = Lit(<<3844>>, 5)
    /\ InverseSquareInRange(arg_mass, arg_radius)
    /\ WithinTolerance

\* C5, as the spec states it: for every mass M > 0 and radius r > 0,
\* 0.5 * v^2 is (G * M / r) / 2 within 1e-6, v = orbital_velocity(M, r).
C5_EnergyForAll == Ran("test_circular_orbit_energy_balance") => WithinTolerance

\* C5, amended: the same for every M > 0 and r > 0 for which G * M,
\* G * M / r and (G * M / r) / 2 are normal numbers.
C5_EnergyInRange ==
    (Ran("test_circular_orbit_energy_balance")
        /\ EnergyInRange(arg_mass, arg_radius)) => WithinTolerance

\* the balance has held for the Earth's mass at the smallest of the radii
C5_Witness ==
    /\ Ran("test_circular_orbit_energy_balance")
    /\ arg_mass = EARTH_MASS
    /\ arg_radius = Scaled(EARTH_RADIUS, 0 - MaxScale)
    /\ EnergyInRange(arg_mass, arg_radius)
    /\ WithinTolerance

====
